---- MODULE Spec2Model ----
(***************************************************************************)
(* The explorer context menus of the card editor: the Workspace (ordered   *)
(* groups of ordered cards), the tri-state Selection, the menu handlers    *)
(* that mutate them, and renderClick, the suspending export pipeline; and   *)
(* CardFront, the face of the active card with its wrapped text regions.   *)
(***************************************************************************)
EXTENDS Integers, Sequences, FiniteSets, TLC

VARIABLES
    groups,         \* state.groups: the Workspace, a sequence of groups
    selection,      \* state.selection
    isRendering,    \* the IsRenderingContext flag
    renderedCards,  \* renderedCards.current is mounted (not null)
    exports,        \* the renderClick invocations suspended at an await
    meanwhile,      \* history: handlers run while an export was suspended
    last,           \* history: the handler or continuation that ran last
    front           \* CardFront: the active card and the elements of its face

vars == <<groups, selection, isRendering, renderedCards, exports, meanwhile,
          last, front>>

\* The Workspace holds at most MaxEntities groups and cards altogether.
MaxEntities == 4
\* At most MaxMeanwhile handlers run while an export is suspended at an
\* await, so that at most MaxMeanwhile + 1 exports are suspended at a time.
MaxMeanwhile == 1

Slots == 1..(MaxMeanwhile + 1)

(***************************************************************************)
(* Selection: a tagged variant.                                            *)
(***************************************************************************)
SelNone == [type |-> "None"]
SelGroup(g) == [type |-> "Group", group |-> g]
SelCard(g, c) == [type |-> "Card", group |-> g, card |-> c]

\* state.select(), state.select(group), state.select(group, card): the
\* three call shapes of select, which validates no bounds.
select0 == SelNone
select1(g) == SelGroup(g)
select2(g, c) == SelCard(g, c)

\* state.setSelection(sel)
setSelection(sel) == sel

(***************************************************************************)
(* CardModel: groups and cards.                                            *)
(***************************************************************************)
Card(name) == [name |-> name]
CardGroup(name, cards) == [name |-> name, cards |-> cards]

\* The card that addCard() makes when it is given no template.
DefaultCard == Card("New Card")

\* `New Group ${state.groups.length}`
NewGroupName(n) == "New Group " \o ToString(n)

\* state.addGroup(group): appends; the handlers select the returned id.
addGroup(gs, g) == Append(gs, g)
addGroupId(gs) == Len(gs)

\* group.addCard(template?): appends; the handlers select the returned id.
addCard(gs, gi, card) ==
    [gs EXCEPT ![gi + 1].cards = Append(gs[gi + 1].cards, card)]
addCardId(gs, gi) == Len(gs[gi + 1].cards)

\* Moving the element at 0-based index from to 0-based index to; an index
\* out of range leaves the sequence as it is.
Move(seq, from, to) ==
    IF from < 0 \/ from >= Len(seq) \/ to < 0 \/ to >= Len(seq)
    THEN seq
    ELSE LET without == SubSeq(seq, 1, from) \o SubSeq(seq, from + 2, Len(seq))
         IN  SubSeq(without, 1, to) \o <<seq[from + 1]>>
                \o SubSeq(without, to + 1, Len(without))

\* state.moveGroup(from, to)
moveGroup(gs, from, to) == Move(gs, from, to)

\* group.moveCard(from, to)
moveCard(gs, gi, from, to) ==
    [gs EXCEPT ![gi + 1].cards = Move(gs[gi + 1].cards, from, to)]

RECURSIVE CountCards(_)
CountCards(gs) ==
    IF gs = <<>> THEN 0 ELSE Len(Head(gs).cards) + CountCards(Tail(gs))

Entities(gs) == Len(gs) + CountCards(gs)

(***************************************************************************)
(* The props a context menu hands to its handlers: the selection the menu  *)
(* was opened on, an entity the explorer shows, or None.                   *)
(***************************************************************************)
Props ==
    {SelNone}
    \cup {SelGroup(g) : g \in 0..(Len(groups) - 1)}
    \cup UNION {{SelCard(g, c) : c \in 0..(Len(groups[g + 1].cards) - 1)} :
                    g \in 0..(Len(groups) - 1)}

NoExport == [pc |-> "idle"]

\* What the step that ran last handed to saveAs.
NoSave == [called |-> FALSE]
saveAs(blob, name) == [called |-> TRUE, blob |-> blob, name |-> name]

\* The history of a step: who ran, for which export, and what it saved.
Step(op, props, s, e, saved) ==
    [op |-> op, props |-> props, slot |-> s, e |-> e, saved |-> saved]

InFlight == {s \in Slots : exports[s].pc # "idle"}

\* A handler ran: it is the last one, and every export suspended at an
\* await has had another handler run during it.
Ran(op, props) ==
    /\ meanwhile' = IF InFlight = {} THEN 0 ELSE meanwhile + 1
    /\ last' = Step(op, props, 0, NoExport, NoSave)
    /\ exports' = [s \in Slots |->
                    IF exports[s].pc = "idle" THEN exports[s]
                    ELSE [exports[s] EXCEPT !.alone = FALSE]]

(***************************************************************************)
(* The handlers.                                                           *)
(***************************************************************************)
\* addClick selecting the group it added the card to, not the card.
addClick_SelectsGroup(props) ==
    /\ IF props.type = "Group"
       THEN /\ Entities(groups) < MaxEntities
            /\ groups' = addCard(groups, props.group, DefaultCard)
            /\ selection' = select1(props.group)
       ELSE IF props.type = "None"
       THEN /\ Entities(groups) < MaxEntities
            /\ groups' = addGroup(groups, CardGroup(NewGroupName(Len(groups)), <<>>))
            /\ selection' = select1(addGroupId(groups))
       ELSE UNCHANGED <<groups, selection>>
    /\ Ran("add", props)
    /\ UNCHANGED <<isRendering, renderedCards, front>>

addClick(props) ==
    /\ IF props.type = "Group"
       THEN /\ Entities(groups) < MaxEntities
            /\ groups' = addCard(groups, props.group, DefaultCard)
            /\ selection' = select2(props.group, addCardId(groups, props.group))
       ELSE IF props.type = "None"
       THEN /\ Entities(groups) < MaxEntities
            /\ groups' = addGroup(groups, CardGroup(NewGroupName(Len(groups)), <<>>))
            /\ selection' = select1(addGroupId(groups))
       ELSE UNCHANGED <<groups, selection>>
    /\ Ran("add", props)
    /\ UNCHANGED <<isRendering, renderedCards, front>>

editClick(props) ==
    /\ IF props.type = "Group"
       THEN selection' = select1(props.group)
       ELSE UNCHANGED selection
    /\ Ran("edit", props)
    /\ UNCHANGED <<groups, isRendering, renderedCards, front>>

editDisable(props) ==
    /\ props.type = "Group"
    /\ selection.type = "Group"
    /\ selection.group = props.group

\* duplicateClick selecting the source it copied, not the copy.
duplicateClick_SelectsSource(props) ==
    /\ IF props.type = "Group"
       THEN /\ Entities(groups) + 1 + Len(groups[props.group + 1].cards) <= MaxEntities
            /\ groups' = addGroup(groups, groups[props.group + 1])
            /\ selection' = select1(props.group)
       ELSE IF props.type = "Card"
       THEN /\ Entities(groups) < MaxEntities
            /\ groups' = addCard(groups, props.group,
                                 groups[props.group + 1].cards[props.card + 1])
            /\ selection' = select2(props.group, props.card)
       ELSE UNCHANGED <<groups, selection>>
    /\ Ran("duplicate", props)
    /\ UNCHANGED <<isRendering, renderedCards, front>>

duplicateClick(props) ==
    /\ IF props.type = "Group"
       THEN /\ Entities(groups) + 1 + Len(groups[props.group + 1].cards) <= MaxEntities
            /\ groups' = addGroup(groups, groups[props.group + 1])
            /\ selection' = select1(addGroupId(groups))
       ELSE IF props.type = "Card"
       THEN /\ Entities(groups) < MaxEntities
            /\ groups' = addCard(groups, props.group,
                                 groups[props.group + 1].cards[props.card + 1])
            /\ selection' = select2(props.group, addCardId(groups, props.group))
       ELSE UNCHANGED <<groups, selection>>
    /\ Ran("duplicate", props)
    /\ UNCHANGED <<isRendering, renderedCards, front>>

\* upClick selecting the index the entity has left.
upClick_SelectsOldIndex(props) ==
    /\ IF props.type = "Group"
       THEN /\ groups' = moveGroup(groups, props.group, props.group - 1)
            /\ selection' = select1(props.group)
       ELSE IF props.type = "Card"
       THEN /\ groups' = moveCard(groups, props.group, props.card, props.card - 1)
            /\ selection' = select2(props.group, props.card)
       ELSE UNCHANGED <<groups, selection>>
    /\ Ran("up", props)
    /\ UNCHANGED <<isRendering, renderedCards, front>>

upClick(props) ==
    /\ IF props.type = "Group"
       THEN /\ groups' = moveGroup(groups, props.group, props.group - 1)
            /\ selection' = select1(props.group - 1)
       ELSE IF props.type = "Card"
       THEN /\ groups' = moveCard(groups, props.group, props.card, props.card - 1)
            /\ selection' = select2(props.group, props.card - 1)
       ELSE UNCHANGED <<groups, selection>>
    /\ Ran("up", props)
    /\ UNCHANGED <<isRendering, renderedCards, front>>

downClick(props) ==
    /\ IF props.type = "Group"
       THEN /\ groups' = moveGroup(groups, props.group, props.group + 1)
            /\ selection' = select1(props.group + 1)
       ELSE IF props.type = "Card"
       THEN /\ groups' = moveCard(groups, props.group, props.card, props.card + 1)
            /\ selection' = select2(props.group, props.card + 1)
       ELSE UNCHANGED <<groups, selection>>
    /\ Ran("down", props)
    /\ UNCHANGED <<isRendering, renderedCards, front>>

\* upDisable testing for an index below the first.
upDisable_BelowFirst(props) ==
    IF props.type = "Group" THEN props.group < 0
    ELSE IF props.type = "Card" THEN props.card < 0
    ELSE TRUE

upDisable(props) ==
    IF props.type = "Group" THEN props.group = 0
    ELSE IF props.type = "Card" THEN props.card = 0
    ELSE TRUE

downDisable(props) ==
    IF props.type = "Group" THEN props.group = Len(groups) - 1
    ELSE IF props.type = "Card"
    THEN props.card = Len(groups[props.group + 1].cards) - 1
    ELSE TRUE

deselect ==
    /\ selection' = select0
    /\ Ran("deselect", SelNone)
    /\ UNCHANGED <<groups, isRendering, renderedCards, front>>

(***************************************************************************)
(* renderClick, an async function: it runs to its first await, and each    *)
(* continuation runs from one await to the next. An export is the record   *)
(* of one suspended invocation:                                            *)
(*   props      the selection the menu was opened on                       *)
(*   preselect  state.selection as saved on entry                          *)
(*   group,card the loop counters                                          *)
(*   pc         "render": awaiting renderedCards.current.render(...)       *)
(*              "generate": awaiting render.generateAsync(...)             *)
(*   zip        the JSZip: the paths of its folders and entries            *)
(*   folder     the folder handed to the render step being awaited         *)
(*   log        history: the cards whose render step was started           *)
(*   resolved   history: the number of render steps that have resolved     *)
(*   alone      history: no other handler has run since entry              *)
(***************************************************************************)
\* What a completed render step leaves in the folder it was given.
Artifact == "artifact"

\* JSZip.folder(name) under the folder at path: creates it, returns it.
folder(path, name) == Append(path, name)

StartRender(e, g, c, zip, path) ==
    [e EXCEPT !.pc = "render", !.group = g, !.card = c,
              !.zip = zip \cup {path}, !.folder = path,
              !.log = Append(e.log, <<g, c>>)]

StartGenerate(e, g, c, zip) ==
    [e EXCEPT !.pc = "generate", !.group = g, !.card = c, !.zip = zip,
              !.folder = <<>>]

\* GroupLoop with its counter starting at 1.
GroupLoop_FromOne(e, card) ==
    LET g == e.props.group
        from == IF card = 0 THEN 1 ELSE card
    IN  IF from < Len(groups[g + 1].cards)
        THEN StartRender(e, g, from, e.zip,
                         folder(<<>>, groups[g + 1].cards[from + 1].name))
        ELSE StartGenerate(e, g, from, e.zip)

\* GroupLoop handing render a folder named after the card inside a folder
\* named after the group.
GroupLoop_GroupFolder(e, card) ==
    LET g == e.props.group
    IN  IF card < Len(groups[g + 1].cards)
        THEN StartRender(e, g, card, e.zip,
                         folder(folder(<<>>, groups[g + 1].name),
                                groups[g + 1].cards[card + 1].name))
        ELSE StartGenerate(e, g, card, e.zip)

\* Group scope: the loop's test at counter card, then its body up to the
\* await, or the code after the loop up to its await.
GroupLoop(e, card) ==
    LET g == e.props.group
    IN  IF card < Len(groups[g + 1].cards)
        THEN StartRender(e, g, card, e.zip,
                         folder(<<>>, groups[g + 1].cards[card + 1].name))
        ELSE StartGenerate(e, g, card, e.zip)

\* Workspace scope: the nested loops from their tests at counters group and
\* card, up to the next await.
RECURSIVE WorkspaceInner(_, _, _, _)
RECURSIVE WorkspaceOuter(_, _, _)
\* WorkspaceInner making the folder of the card in the archive's root.
WorkspaceInner_RootFolder(e, group, card, zip) ==
    IF card < Len(groups[group + 1].cards)
    THEN StartRender(e, group, card, zip,
                     folder(<<>>, groups[group + 1].cards[card + 1].name))
    ELSE WorkspaceOuter(e, group + 1, zip)

WorkspaceInner(e, group, card, zip) ==
    IF card < Len(groups[group + 1].cards)
    THEN StartRender(e, group, card, zip,
                     folder(folder(<<>>, groups[group + 1].name),
                            groups[group + 1].cards[card + 1].name))
    ELSE WorkspaceOuter(e, group + 1, zip)

WorkspaceOuter(e, group, zip) ==
    IF group < Len(groups)
    THEN WorkspaceInner(e, group, 0,
                        zip \cup {folder(<<>>, groups[group + 1].name)})
    ELSE StartGenerate(e, group, 0, zip)

\* Card scope: select the card and call render(), which makes its own zip.
CardRender(e) ==
    [e EXCEPT !.pc = "render", !.group = e.props.group, !.card = e.props.card,
              !.folder = <<>>,
              !.log = Append(e.log, <<e.props.group, e.props.card>>)]

\* The synchronous run of renderClick from its entry to its first await.
Entered(props) ==
    LET e == [props |-> props, preselect |-> selection, group |-> 0, card |-> 0,
              pc |-> "entry", zip |-> {}, folder |-> <<>>, log |-> <<>>,
              resolved |-> 0,
              alone |-> InFlight = {}]
    IN  IF props.type = "Group" THEN GroupLoop(e, 0)
        ELSE IF props.type = "Card" THEN CardRender(e)
        ELSE WorkspaceOuter(e, 0, e.zip)

\* The run from a resolved render step to the next await.
Continued(e) ==
    LET zip == e.zip \cup {Append(e.folder, Artifact)}
        r == [e EXCEPT !.zip = zip, !.resolved = e.resolved + 1]
    IN  IF e.props.type = "Group"
        THEN GroupLoop(r, e.card + 1)
        ELSE IF e.props.type = "Card"
        THEN StartGenerate(r, e.group, e.card, zip)
        ELSE WorkspaceInner(r, e.group, e.card + 1, zip)

\* The name the archive is saved under.
SaveName(e) ==
    IF e.props.type = "Group" THEN groups[e.props.group + 1].name
    ELSE IF e.props.type = "Card"
    THEN groups[e.props.group + 1].cards[e.props.card + 1].name
    ELSE "workspace"

\* state.select(group, card) of the render step an export has just started.
SelectFor(e) ==
    IF e.pc = "render" THEN selection' = select2(e.group, e.card)
    ELSE UNCHANGED selection

OthersInterrupted(s, e) ==
    [t \in Slots |->
        IF t = s THEN e
        ELSE IF exports[t].pc = "idle" THEN exports[t]
        ELSE [exports[t] EXCEPT !.alone = FALSE]]

FreeSlot == CHOOSE s \in Slots : exports[s].pc = "idle" /\
                \A t \in Slots : exports[t].pc = "idle" => s <= t

\* renderClick without its test of renderedCards.current.
renderClick_NoNullGuard(props) ==
    /\ InFlight # Slots
    /\ LET e == Entered(props)
           s == FreeSlot
       IN  /\ isRendering' = TRUE
           /\ SelectFor(e)
           /\ exports' = OthersInterrupted(s, e)
           /\ meanwhile' = IF InFlight = {} THEN 0 ELSE meanwhile + 1
           /\ last' = Step("renderClick", props, s, NoExport, NoSave)
    /\ UNCHANGED <<groups, renderedCards, front>>

renderClick(props) ==
    IF ~renderedCards
    THEN /\ Ran("renderNull", props)
         /\ UNCHANGED <<groups, selection, isRendering, renderedCards, front>>
    ELSE /\ InFlight # Slots
         /\ LET e == Entered(props)
                s == FreeSlot
            IN  /\ isRendering' = TRUE
                /\ SelectFor(e)
                /\ exports' = OthersInterrupted(s, e)
                /\ meanwhile' = IF InFlight = {} THEN 0 ELSE meanwhile + 1
                /\ last' = Step("renderClick", props, s, NoExport, NoSave)
         /\ UNCHANGED <<groups, renderedCards, front>>

\* await renderedCards.current.render(...) resolves.
RenderResolved(s) ==
    /\ exports[s].pc = "render"
    /\ LET e == Continued(exports[s])
       IN  /\ SelectFor(e)
           /\ exports' = [exports EXCEPT ![s] = e]
           /\ last' = Step("continue", e.props, s, NoExport, NoSave)
    /\ UNCHANGED <<groups, isRendering, renderedCards, meanwhile, front>>

\* Evaluating the name argument of saveAs throws a TypeError: the card
\* of a Card-scope export is no longer at its index.
SaveNameThrows(e) ==
    /\ e.props.type = "Card"
    /\ e.props.card >= Len(groups[e.props.group + 1].cards)

\* GenerateResolved leaving Selection on the card rendered last.
GenerateResolved_NoRestore(s) ==
    /\ exports[s].pc = "generate"
    /\ exports' = [exports EXCEPT ![s] = NoExport]
    /\ IF SaveNameThrows(exports[s])
       THEN /\ last' = Step("reject", exports[s].props, s, exports[s], NoSave)
            /\ UNCHANGED <<selection, isRendering>>
       ELSE /\ UNCHANGED selection
            /\ isRendering' = FALSE
            /\ last' = Step("exit", exports[s].props, s, exports[s],
                            saveAs(exports[s].zip, SaveName(exports[s])))
    /\ UNCHANGED <<groups, renderedCards, meanwhile, front>>

\* await render.generateAsync(...) resolves: saveAs, setSelection,
\* setIsRendering(false), and the function returns; or the name argument
\* throws and the function ends there, by rejecting.
GenerateResolved(s) ==
    /\ exports[s].pc = "generate"
    /\ exports' = [exports EXCEPT ![s] = NoExport]
    /\ IF SaveNameThrows(exports[s])
       THEN /\ last' = Step("reject", exports[s].props, s, exports[s], NoSave)
            /\ UNCHANGED <<selection, isRendering>>
       ELSE /\ selection' = setSelection(exports[s].preselect)
            /\ isRendering' = FALSE
            /\ last' = Step("exit", exports[s].props, s, exports[s],
                            saveAs(exports[s].zip, SaveName(exports[s])))
    /\ UNCHANGED <<groups, renderedCards, meanwhile, front>>

\* Rejected saving what the archive holds so far, as a finally block would.
Rejected_SavesPartial(s) ==
    /\ exports[s].pc \in {"render", "generate"}
    /\ exports' = [exports EXCEPT ![s] = NoExport]
    /\ last' = Step("reject", exports[s].props, s, exports[s],
                    saveAs(exports[s].zip, "partial"))
    /\ UNCHANGED <<groups, selection, isRendering, renderedCards, meanwhile, front>>

\* Either await rejects: the async function ends there, by rejecting.
Rejected(s) ==
    /\ exports[s].pc \in {"render", "generate"}
    /\ exports' = [exports EXCEPT ![s] = NoExport]
    /\ last' = Step("reject", exports[s].props, s, exports[s], NoSave)
    /\ UNCHANGED <<groups, selection, isRendering, renderedCards, meanwhile, front>>

(***************************************************************************)
(* CardFront: the face of the active card. The text of the fixed fields is *)
(* a sequence of one-character strings; the text of a wrapped region is a  *)
(* sequence of words. A field of a card is the set of its values: empty    *)
(* if the card does not have the field.                                    *)
(***************************************************************************)
\* The card has the field: it is not undefined.
Has(card, field) == card[field] # {}

\* The value of a field the card has.
The(card, field) == CHOOSE v \in card[field] : TRUE

Lowers == <<"a", "b", "c", "d", "e", "f", "g", "h", "i", "j", "k", "l", "m",
            "n", "o", "p", "q", "r", "s", "t", "u", "v", "w", "x", "y", "z">>
Uppers == <<"A", "B", "C", "D", "E", "F", "G", "H", "I", "J", "K", "L", "M",
            "N", "O", "P", "Q", "R", "S", "T", "U", "V", "W", "X", "Y", "Z">>
Digits == <<"0", "1", "2", "3", "4", "5", "6", "7", "8", "9">>

\* The place of a character in a sequence of characters, 0 if it has none.
IndexOf(c, chars) ==
    IF \E i \in 1..Len(chars) : chars[i] = c
    THEN CHOOSE i \in 1..Len(chars) : chars[i] = c
    ELSE 0

toLowerCase(s) ==
    [i \in 1..Len(s) |->
        IF IndexOf(s[i], Uppers) = 0 THEN s[i] ELSE Lowers[IndexOf(s[i], Uppers)]]

toUpperCase(s) ==
    [i \in 1..Len(s) |->
        IF IndexOf(s[i], Lowers) = 0 THEN s[i] ELSE Uppers[IndexOf(s[i], Lowers)]]

startsWith(s, p) == Len(s) >= Len(p) /\ SubSeq(s, 1, Len(p)) = p

\* The texts /^concentration(,)? / matches, the one with the comma first.
ConcentrationComma == <<"c", "o", "n", "c", "e", "n", "t", "r", "a", "t",
                        "i", "o", "n", ",", " ">>
ConcentrationSpace == <<"c", "o", "n", "c", "e", "n", "t", "r", "a", "t",
                        "i", "o", "n", " ">>

\* The text the regular expression matches at the start of s, <<>> if it
\* does not match.
match(s) ==
    IF startsWith(s, ConcentrationComma) THEN ConcentrationComma
    ELSE IF startsWith(s, ConcentrationSpace) THEN ConcentrationSpace
    ELSE <<>>

\* s.replace(/^concentration(,)? /i, ""): the flag i compares the
\* characters without their case.
replace(s) == SubSeq(s, Len(match(toLowerCase(s))) + 1, Len(s))

\* durationConc as a test of the duration with its case.
durationConc_CaseSensitive(card) ==
    Has(card, "duration") /\ match(The(card, "duration")) # <<>>

durationConc(card) ==
    Has(card, "duration") /\ match(toLowerCase(The(card, "duration"))) # <<>>

\* The duration of a card that has one.
duration(card) ==
    IF durationConc(card) THEN replace(The(card, "duration"))
    ELSE The(card, "duration")

\* The text shown as the duration: empty for a card that has none.
durationCap(card) ==
    IF ~Has(card, "duration") THEN <<>>
    ELSE LET d == duration(card)
         IN  toUpperCase(SubSeq(d, 1, 1)) \o SubSeq(d, 2, Len(d))

\* The number the leading digits of s stand for.
RECURSIVE DigitsValue(_)
DigitsValue(s) ==
    IF s = <<>> THEN 0
    ELSE DigitsValue(SubSeq(s, 1, Len(s) - 1)) * 10 + IndexOf(s[Len(s)], Digits) - 1

\* parseInt(s, 10): white space, a sign, then the digits up to the first
\* character that is none; NaN if there is no digit.
parseInt(s) ==
    LET spaces == CHOOSE k \in 0..Len(s) :
                    /\ \A i \in 1..k : s[i] = " "
                    /\ k < Len(s) => s[k + 1] # " "
        signed == spaces < Len(s) /\ s[spaces + 1] \in {"+", "-"}
        first == spaces + (IF signed THEN 2 ELSE 1)
        digits == CHOOSE k \in 0..(Len(s) - first + 1) :
                    /\ \A i \in first..(first + k - 1) : IndexOf(s[i], Digits) # 0
                    /\ first + k <= Len(s) => IndexOf(s[first + k], Digits) = 0
        value == DigitsValue(SubSeq(s, first, first + digits - 1))
    IN  [isNaN |-> digits = 0,
         value |-> IF signed /\ s[spaces + 1] = "-" THEN 0 - value ELSE value]

\* The decimal digits of a natural number.
RECURSIVE toString(_)
toString(n) ==
    IF n < 10 THEN <<Digits[n + 1]>>
    ELSE toString(n \div 10) \o <<Digits[(n % 10) + 1]>>

\* ordinalSuffixOf(i): the number with st, nd, rd or th.
ordinalSuffixOf(i) ==
    LET j == i % 10
        k == i % 100
    IN  toString(i) \o
            (IF j = 1 /\ k # 11 THEN <<"s", "t">>
             ELSE IF j = 2 /\ k # 12 THEN <<"n", "d">>
             ELSE IF j = 3 /\ k # 13 THEN <<"r", "d">>
             ELSE <<"t", "h">>)

\* A field in a template literal: an absent one reads undefined.
Undefined == <<"u", "n", "d", "e", "f", "i", "n", "e", "d">>
Template(card, field) == IF Has(card, field) THEN The(card, field) ELSE Undefined

Cantrip == <<" ", "c", "a", "n", "t", "r", "i", "p">>
Level == <<" ", "l", "e", "v", "e", "l", " ">>

cardlevel(card) ==
    parseInt(IF Has(card, "level") THEN The(card, "level") ELSE <<"0">>)

\* The text shown as the type of the card: empty for an undefined cardType.
cardType(card) ==
    LET l == cardlevel(card)
    IN  IF ~l.isNaN
        THEN IF l.value = 0
             THEN Template(card, "type") \o Cantrip
             ELSE ordinalSuffixOf(l.value) \o Level \o Template(card, "type")
        ELSE <<>>

\* bulletLists: a marker at the start of an item becomes the bullet glyph
\* ("o" stands for the glyph).
Marker == "*"
Bullet == "o"
bulletLists(text) ==
    [i \in 1..Len(text) |-> IF text[i] = Marker THEN Bullet ELSE text[i]]

\* The width the three regions are wrapped to.
WrapWidth == 44

\* The height of a line, in tenths of a unit.
LineHeight == 10

\* The lines of a text wrapped greedily to a width, a glyph being one unit
\* wide: a word that does not fit starts a line, and so does a bullet.
RECURSIVE Wrap(_, _, _, _)
Wrap(words, line, used, width) ==
    IF words = <<>> THEN (IF line = <<>> THEN <<>> ELSE <<line>>)
    ELSE LET w == Head(words)
             need == IF line = <<>> THEN Len(w) ELSE used + 1 + Len(w)
         IN  IF line # <<>> /\ (need > width \/ w = Bullet)
             THEN <<line>> \o Wrap(words, <<>>, 0, width)
             ELSE Wrap(Tail(words), Append(line, w), need, width)

\* wordWrapSVG(text, width, target): the fragments that replace those of
\* the target, and the height they take, in tenths of a unit.
wordWrapSVG(text, width) ==
    LET lines == Wrap(text, <<>>, 0, width)
    IN  [lines |-> lines, height |-> Len(lines) * LineHeight]

\* A card of a name with its fields.
CardOf(name, l, t, d, p, s, x) ==
    [type |-> t, name |-> name, duration |-> d, level |-> l,
     physicalComponents |-> p, description |-> s, extDescription |-> x]

\* The card shown when nothing is selected.
NoSelectionCard == CardOf("No Selection", {}, {}, {}, {}, {}, {})
\* The elements of the face the refs point to, as the component first
\* renders them. An attribute is the set of its values: empty if not set.
\* Numbers are in tenths of a unit.
InitialFront ==
    [card |-> NoSelectionCard,
     physCompBkg |-> [height |-> {35}, display |-> {}],
     physComp |-> <<>>,
     desc |-> [lines |-> <<>>, dy |-> {}],
     extDescTitle |-> [display |-> {}, transform |-> {}],
     extDesc |-> [lines |-> <<>>, y |-> {}],
     currHeight |-> 0]

\* The cleanup of the effect as one that leaves the fragments.
cleanup_KeepsFragments(f) == f

\* The cleanup of the effect: the three regions are emptied.
cleanup(f) ==
    [f EXCEPT !.physComp = <<>>, !.desc.lines = <<>>, !.extDesc.lines = <<>>]

\* The effect's first block as one that never hides the strip.
physicalComponents_NeverHidden(card, f) ==
    IF Has(card, "physicalComponents")
    THEN LET w == wordWrapSVG(bulletLists(The(card, "physicalComponents")),
                              WrapWidth)
         IN  [f EXCEPT !.physComp = w.lines,
                       !.physCompBkg = [height |-> {w.height + 40}, display |-> {}],
                       !.currHeight = f.currHeight + w.height + 35]
    ELSE f

\* The effect's first block: the strip of the physical components.
physicalComponents(card, f) ==
    IF Has(card, "physicalComponents")
    THEN LET w == wordWrapSVG(bulletLists(The(card, "physicalComponents")),
                              WrapWidth)
         IN  [f EXCEPT !.physComp = w.lines,
                       !.physCompBkg = [height |-> {w.height + 40}, display |-> {}],
                       !.currHeight = f.currHeight + w.height + 35]
    ELSE [f EXCEPT !.physCompBkg.display = {"none"}]

\* The effect's second block: the description, below the strip.
description(card, f) ==
    IF Has(card, "description")
    THEN LET w == wordWrapSVG(bulletLists(The(card, "description")), WrapWidth)
         IN  [f EXCEPT !.desc = [lines |-> w.lines, dy |-> {f.currHeight}],
                       !.currHeight = f.currHeight + w.height]
    ELSE f

\* The effect's third block: the extended description and its title.
extDescription(card, f) ==
    IF Has(card, "extDescription")
    THEN LET w == wordWrapSVG(bulletLists(The(card, "extDescription")), WrapWidth)
         IN  [f EXCEPT !.extDesc = [lines |-> w.lines, y |-> {650 - w.height}],
                       !.extDescTitle = [display |-> {},
                                         transform |-> {620 - w.height}]]
    ELSE [f EXCEPT !.extDescTitle.display = {"none"}]

\* The effect for a card: currHeight starts at 0 and is local to the run.
useEffect(card, f) ==
    LET run == extDescription(card, description(card,
                    physicalComponents(card, [f EXCEPT !.card = card, !.currHeight = 0])))
    IN  [run EXCEPT !.currHeight = 0]

\* The values of the fields of the cards shown: a field is the set of its
\* values, empty if the card has none.
Durations ==
    {{}, {<<"C", "o", "n", "c", "e", "n", "t", "r", "a", "t", "i", "o", "n",
            ",", " ", "1", " ", "m", "i", "n", "u", "t", "e">>},
     {<<"c", "o", "n", "c", "e", "n", "t", "r", "a", "t", "i", "o", "n", " ",
        "i", "n", "s", "t", "a", "n", "t", "a", "n", "e", "o", "u", "s">>},
     {<<"C", "o", "n", "c", "e", "n", "t", "r", "a", "t", "i", "o", "n">>},
     {<<"I", "n", "s", "t", "a", "n", "t", "a", "n", "e", "o", "u", "s">>},
     {<<"i", "n", "s", "t", "a", "n", "t", "a", "n", "e", "o", "u", "s">>}}
Levels == {{}, {<<"0">>}, {<<"3">>}, {<<"x">>}}
Types == {{}, {<<"e", "v", "o", "c", "a", "t", "i", "o", "n">>}}
Materials == {{}, {<<"*", "bat", "guano", "*", "sulfur">>}}
Descriptions ==
    {{}, {<<"A", "bright", "streak", "flashes", "from", "your", "pointing",
            "finger", "and", "blossoms", "into", "flame">>}}
ExtDescriptions == {{}, {<<"The", "damage", "increases", "by", "1d6">>}}

\* The component renders a card and its effect runs, after the cleanup of
\* the effect of the card before.
Show(card) ==
    /\ front' = useEffect(card, cleanup(front))
    /\ UNCHANGED <<groups, selection, isRendering, renderedCards, exports,
                   meanwhile, last>>

\* The selection is a card: the card itself.
ShowCard ==
    \E l \in Levels, t \in Types, d \in Durations :
        \E p \in Materials, s \in Descriptions, x \in ExtDescriptions :
            Show(CardOf("Fireball", l, t, d, p, s, x))

\* The selection is a group: its name and its defaults.
ShowGroup ==
    \E t \in Types, p \in Materials, s \in Descriptions, x \in ExtDescriptions :
        Show(CardOf("Spells", {}, t, {}, p, s, x))

\* No selection.
ShowNone == Show(NoSelectionCard)

\* The RenderedCards component mounts: renderedCards.current is set.
Mount ==
    /\ ~renderedCards
    /\ renderedCards' = TRUE
    /\ last' = Step("mount", SelNone, 0, NoExport, NoSave)
    /\ UNCHANGED <<groups, selection, isRendering, exports, meanwhile, front>>

(***************************************************************************)
(* The session starts with an empty Workspace or a loaded one.             *)
(***************************************************************************)
Spells == CardGroup("Spells", <<Card("Fireball"), Card("Magic Missile")>>)

Init ==
    /\ groups \in {<<>>, <<Spells>>}
    /\ selection = SelNone
    /\ isRendering = FALSE
    /\ renderedCards = FALSE
    /\ exports = [s \in Slots |-> NoExport]
    /\ meanwhile = 0
    /\ last = Step("init", SelNone, 0, NoExport, NoSave)
    /\ front = useEffect(NoSelectionCard, InitialFront)

(***************************************************************************)
(* The items of the three context menus: an item calls its handler with    *)
(* the props of the menu, unless its disabled function says it is          *)
(* disabled. Download does not touch the state, and Delete only hands the  *)
(* props to the confirmation dialog.                                       *)
(***************************************************************************)
AddGroupItem == addClick(SelNone)
DeselectItem == deselect
RenderAllItem == renderClick(SelNone)
EditItem(p) == p.type = "Group" /\ ~editDisable(p) /\ editClick(p)
AddCardItem(p) == p.type = "Group" /\ addClick(p)
DuplicateItem(p) == p.type \in {"Group", "Card"} /\ duplicateClick(p)
MoveUpItem(p) == p.type \in {"Group", "Card"} /\ ~upDisable(p) /\ upClick(p)
MoveDownItem(p) == p.type \in {"Group", "Card"} /\ ~downDisable(p) /\ downClick(p)
RenderItem(p) == p.type \in {"Group", "Card"} /\ renderClick(p)

\* A handler may run when no export is suspended, and at most limit
\* handlers run while one is.
Allowed(limit) == InFlight = {} \/ meanwhile < limit

Next ==
    \/ Mount
    \/ Allowed(MaxMeanwhile) /\ AddGroupItem
    \/ Allowed(MaxMeanwhile) /\ DeselectItem
    \/ Allowed(MaxMeanwhile) /\ RenderAllItem
    \/ Allowed(MaxMeanwhile) /\ \E p \in Props : EditItem(p)
    \/ Allowed(MaxMeanwhile) /\ \E p \in Props : AddCardItem(p)
    \/ Allowed(MaxMeanwhile) /\ \E p \in Props : DuplicateItem(p)
    \/ Allowed(MaxMeanwhile) /\ \E p \in Props : MoveUpItem(p)
    \/ Allowed(MaxMeanwhile) /\ \E p \in Props : MoveDownItem(p)
    \/ Allowed(MaxMeanwhile) /\ \E p \in Props : RenderItem(p)
    \/ \E s \in Slots : RenderResolved(s)
    \/ \E s \in Slots : GenerateResolved(s)
    \/ \E s \in Slots : Rejected(s)

Spec == Init /\ [][Next]_vars

(***************************************************************************)
(* The program when no other handler runs during an export: the menus are  *)
(* used only while no export is suspended.                                 *)
(***************************************************************************)
SoloNext ==
    \/ Mount
    \/ Allowed(0) /\ AddGroupItem
    \/ Allowed(0) /\ DeselectItem
    \/ Allowed(0) /\ RenderAllItem
    \/ Allowed(0) /\ \E p \in Props : EditItem(p)
    \/ Allowed(0) /\ \E p \in Props : AddCardItem(p)
    \/ Allowed(0) /\ \E p \in Props : DuplicateItem(p)
    \/ Allowed(0) /\ \E p \in Props : MoveUpItem(p)
    \/ Allowed(0) /\ \E p \in Props : MoveDownItem(p)
    \/ Allowed(0) /\ \E p \in Props : RenderItem(p)
    \/ \E s \in Slots : RenderResolved(s)
    \/ \E s \in Slots : GenerateResolved(s)
    \/ \E s \in Slots : Rejected(s)

SoloSpec == Init /\ [][SoloNext]_vars

\* Every await of an export settles, and its continuation then runs.
Continuation ==
    \E s \in Slots : RenderResolved(s) \/ GenerateResolved(s) \/ Rejected(s)

SoloFair == SoloSpec /\ WF_vars(Continuation)

(***************************************************************************)
(* The handlers called directly, with any props and whatever their menu    *)
(* item's disabled function says, in a session that exports nothing.       *)
(***************************************************************************)
HandlerNext ==
    \/ deselect
    \/ \E p \in Props : addClick(p)
    \/ \E p \in Props : editClick(p)
    \/ \E p \in Props : duplicateClick(p)
    \/ \E p \in Props : upClick(p)
    \/ \E p \in Props : downClick(p)

HandlerSpec == Init /\ [][HandlerNext]_vars

(***************************************************************************)
(* The face alone: the active card changes, to any card, the defaults of   *)
(* any group, or none. The component renders after the handler that        *)
(* changed the selection has returned, so the handlers above leave the     *)
(* face as it is, and the face changes nothing of the state.               *)
(***************************************************************************)
FrontNext ==
    \/ ShowCard
    \/ ShowGroup
    \/ ShowNone

FrontSpec == Init /\ [][FrontNext]_vars

(***************************************************************************)
(* Properties of the export pipeline.                                      *)
(***************************************************************************)
\* The cards of groups first..last in ascending order, as <<group, card>>.
RECURSIVE CardsFrom(_, _)
CardsFrom(first, lastGroup) ==
    IF first > lastGroup THEN <<>>
    ELSE [c \in 1..Len(groups[first + 1].cards) |-> <<first, c - 1>>]
            \o CardsFrom(first + 1, lastGroup)

\* The cards in the scope of a request, in ascending order.
ScopeCards(props) ==
    IF props.type = "Group" THEN CardsFrom(props.group, props.group)
    ELSE IF props.type = "Card" THEN <<<<props.group, props.card>>>>
    ELSE CardsFrom(0, Len(groups) - 1)

\* C1: an export in which a render step or the archive finalisation fails
\* still ends with Selection equal to the preselect captured at entry and
\* with the rendering flag false.
C1_RestoredOnFailure ==
    (last.op = "reject" /\ last.e.alone) =>
        (selection = last.e.preselect /\ isRendering = FALSE)

\* C2: when no other handler runs during an export and no await of it
\* fails, the export returns to Idle, and at that point the rendering flag
\* is false and Selection is the Selection that was current at its entry.
C2_SuccessReturnsToIdle ==
    /\ [](last.op = "exit" =>
            (selection = last.e.preselect /\ isRendering = FALSE /\ InFlight = {}))
    /\ [](last.op # "reject") => (InFlight # {} ~> last.op = "exit")

C2_Witness ==
    /\ last.op = "exit"
    /\ last.e.props.type = "None"
    /\ last.e.preselect.type = "Card"
    /\ Len(last.e.log) >= 2
    /\ selection = last.e.preselect

\* C3: at most one export request is in flight at any time.
C3_AtMostOneExport == Cardinality(InFlight) <= 1

\* C4: in a Group-scope or Workspace-scope export with no concurrent
\* mutation the render steps are started in ascending order, one for every
\* card in scope, each after the previous one has resolved, and Selection
\* is Card(g, i) of the card being rendered when its step is started.
C4_SequentialAscending ==
    /\ \A s \in Slots :
        LET e == exports[s]
        IN  (e.pc # "idle" /\ e.alone /\ e.props.type \in {"Group", "None"}) =>
                /\ Len(e.log) <= Len(ScopeCards(e.props))
                /\ e.log = SubSeq(ScopeCards(e.props), 1, Len(e.log))
                /\ e.pc = "render" =>
                    /\ e.resolved = Len(e.log) - 1
                    /\ e.log[Len(e.log)] = <<e.group, e.card>>
                    /\ selection = SelCard(e.group, e.card)
                /\ e.pc = "generate" =>
                    /\ e.resolved = Len(e.log)
                    /\ e.log = ScopeCards(e.props)
    /\ (last.op = "exit" /\ last.e.alone) => last.e.log = ScopeCards(last.e.props)

C4_Witness ==
    /\ last.op = "exit"
    /\ last.e.alone
    /\ last.e.props.type = "None"
    /\ last.e.log = <<<<0, 0>>, <<1, 0>>>>
    /\ last.e.resolved = 2

\* C5: saveAs is called only by an export all of whose render steps have
\* resolved and whose loop has ended, and the step in which an await of an
\* export fails, which is the last step of that export, does not call it.
C5_SaveOnlyAfterAllRenders ==
    /\ last.saved.called =>
        /\ last.op = "exit"
        /\ last.e.pc = "generate"
        /\ last.e.resolved = Len(last.e.log)
        /\ last.e.log = ScopeCards(last.e.props)
    /\ last.op = "reject" => (~last.saved.called /\ exports[last.slot].pc = "idle")

C5_Witness ==
    /\ last.op = "reject"
    /\ last.e.pc = "render"
    /\ last.e.resolved = 1
    /\ last.e.zip # {}
    /\ ~last.saved.called

(***************************************************************************)
(* Properties of the handlers of the data model.                           *)
(***************************************************************************)
ValidSelection(sel, gs) ==
    \/ sel.type = "None"
    \/ sel.type = "Group" /\ 0 <= sel.group /\ sel.group < Len(gs)
    \/ /\ sel.type = "Card"
       /\ 0 <= sel.group /\ sel.group < Len(gs)
       /\ 0 <= sel.card /\ sel.card < Len(gs[sel.group + 1].cards)

\* seq with the elements at 0-based indices i and j exchanged.
Swapped(seq, i, j) ==
    [k \in 1..Len(seq) |->
        IF k = i + 1 THEN seq[j + 1] ELSE IF k = j + 1 THEN seq[i + 1] ELSE seq[k]]

\* C6: after every add, duplicate, move-up or move-down request made
\* through the menus, Selection is None or carries indices within the
\* bounds of the Workspace.
C6_SelectionInBounds ==
    last.op \in {"add", "duplicate", "up", "down"} => ValidSelection(selection, groups)

C6_Witness ==
    /\ last.op = "down"
    /\ last.props.type = "Card"
    /\ selection = SelCard(last.props.group, Len(groups[last.props.group + 1].cards) - 1)

C8_InRangeMoveSwaps ==
    [][LET p == last'.props
           to == IF last'.op = "up" THEN -1 ELSE 1
       IN  (last'.op \in {"up", "down"} /\ p.type # "None"
                /\ ~(last'.op = "up" /\ upDisable(p))
                /\ ~(last'.op = "down" /\ downDisable(p)))
            => IF p.type = "Group"
               THEN /\ groups' = Swapped(groups, p.group, p.group + to)
                    /\ selection' = SelGroup(p.group + to)
               ELSE /\ groups' = [groups EXCEPT ![p.group + 1].cards =
                                    Swapped(@, p.card, p.card + to)]
                    /\ selection' = SelCard(p.group, p.card + to)]_vars

C8_Witness ==
    /\ last.op = "up"
    /\ last.props.type = "Card"
    /\ last.props.card = 1
    /\ selection = SelCard(last.props.group, 0)
    /\ groups[last.props.group + 1].cards[1].name = "Magic Missile"
    /\ groups[last.props.group + 1].cards[2].name = "Fireball"

\* C9: Duplicate on a Group appends a copy of the group to the Workspace
\* and selects it, Duplicate on a Card appends a copy of the card to its
\* group and selects it, every entity there before keeps its index and
\* content, and Duplicate on None changes nothing.
C9_DuplicateAppendsAndSelects ==
    [][LET p == last'.props
       IN  last'.op = "duplicate" =>
            IF p.type = "Group"
            THEN /\ Len(groups') = Len(groups) + 1
                 /\ \A k \in 1..Len(groups) : groups'[k] = groups[k]
                 /\ groups'[Len(groups')] = groups[p.group + 1]
                 /\ selection' = SelGroup(Len(groups') - 1)
            ELSE IF p.type = "Card"
            THEN /\ Len(groups') = Len(groups)
                 /\ \A k \in 1..Len(groups) :
                        k # p.group + 1 => groups'[k] = groups[k]
                 /\ groups'[p.group + 1].name = groups[p.group + 1].name
                 /\ groups'[p.group + 1].cards =
                        Append(groups[p.group + 1].cards,
                               groups[p.group + 1].cards[p.card + 1])
                 /\ selection' =
                        SelCard(p.group, Len(groups'[p.group + 1].cards) - 1)
            ELSE groups' = groups /\ selection' = selection]_vars

C9_Witness ==
    /\ last.op = "duplicate"
    /\ last.props.type = "Group"
    /\ Len(groups) = 2
    /\ last.props.group = 0
    /\ Len(groups[1].cards) = 1
    /\ groups[2] = groups[1]
    /\ selection = SelGroup(1)

\* C10: an add request in the None context appends exactly one Group and
\* selects it, an add request in a Group context appends exactly one Card
\* to that group and selects it, and every group and card there before
\* keeps its index.
C10_AddAppendsAndSelects ==
    [][LET p == last'.props
       IN  last'.op = "add" =>
            IF p.type = "None"
            THEN /\ Len(groups') = Len(groups) + 1
                 /\ \A k \in 1..Len(groups) : groups'[k] = groups[k]
                 /\ selection' = SelGroup(Len(groups') - 1)
            ELSE IF p.type = "Group"
            THEN /\ Len(groups') = Len(groups)
                 /\ \A k \in 1..Len(groups) :
                        k # p.group + 1 => groups'[k] = groups[k]
                 /\ groups'[p.group + 1].name = groups[p.group + 1].name
                 /\ Len(groups'[p.group + 1].cards) =
                        Len(groups[p.group + 1].cards) + 1
                 /\ \A c \in 1..Len(groups[p.group + 1].cards) :
                        groups'[p.group + 1].cards[c] = groups[p.group + 1].cards[c]
                 /\ selection' =
                        SelCard(p.group, Len(groups'[p.group + 1].cards) - 1)
            ELSE TRUE]_vars

C10_Witness ==
    /\ last.op = "add"
    /\ last.props = SelGroup(0)
    /\ Len(groups) = 1
    /\ Len(groups[1].cards) = 3
    /\ groups[1].cards[1].name = "Fireball"
    /\ selection = SelCard(0, 2)

(***************************************************************************)
(* Properties of the archive.                                              *)
(***************************************************************************)
\* The entries of an archive: the paths that end in an artifact.
Entries(zip) == {p \in zip : p # <<>> /\ p[Len(p)] = Artifact}

GroupName(g) == groups[g + 1].name
CardName(g, c) == groups[g + 1].cards[c + 1].name

\* The exports to which no other handler has happened: those suspended,
\* and the one that has just exited.
AloneExports(type) ==
    {exports[s] : s \in {t \in Slots : /\ exports[t].pc # "idle"
                                       /\ exports[t].alone
                                       /\ exports[t].props.type = type}}
    \cup (IF last.op = "exit" /\ last.e.alone /\ last.e.props.type = type
          THEN {last.e} ELSE {})

\* C11 as claimed: in a Group-scope export every artifact is in a folder
\* whose name is the name of the containing group.
C11_ArtifactsInGroupFolder ==
    \A e \in AloneExports("Group") :
        \A p \in Entries(e.zip) : Len(p) = 2 /\ p[1] = GroupName(e.props.group)

\* C11: in a Group-scope export the artifact of every rendered card is in
\* a folder of the archive's root whose name is the name of that card, and
\* the name of the group is the name the archive is saved under.
C11_ArtifactsInCardFolder ==
    /\ \A e \in AloneExports("Group") :
        Entries(e.zip) =
            {<<CardName(e.log[k][1], e.log[k][2]), Artifact>> : k \in 1..e.resolved}
    /\ (last.op = "exit" /\ last.e.alone /\ last.props.type = "Group") =>
        /\ last.saved.blob = last.e.zip
        /\ last.saved.name = GroupName(last.props.group)

C11_Witness ==
    /\ last.op = "exit"
    /\ last.props.type = "Group"
    /\ last.saved.name = "Spells"
    /\ Entries(last.saved.blob) =
            {<<"Fireball", Artifact>>, <<"Magic Missile", Artifact>>}

\* C12 as claimed: in a Workspace-scope export the folder of a group is
\* there when a card of it is rendered, the artifact of every rendered
\* card is under the folder of its group, and the archive has one entry
\* for every rendered card.
C12_OneEntryPerCard ==
    \A e \in AloneExports("None") :
        /\ e.pc = "render" => <<GroupName(e.group)>> \in e.zip
        /\ \A k \in 1..e.resolved :
            <<GroupName(e.log[k][1]), CardName(e.log[k][1], e.log[k][2]), Artifact>>
                \in e.zip
        /\ \A p \in Entries(e.zip) : Len(p) = 3
        /\ Cardinality(Entries(e.zip)) = e.resolved

\* C12: in a Workspace-scope export the folder of a group is there when a
\* card of it is rendered, and the entries of the archive are the paths
\* group name / card name / artifact of the rendered cards: nothing is in
\* the root or under another name, and cards that agree in both names
\* share one entry.
C12_EntriesUnderGroupFolders ==
    /\ \A e \in AloneExports("None") :
        /\ e.pc = "render" => <<GroupName(e.group)>> \in e.zip
        /\ \A g \in 0..(Len(groups) - 1) :
            (e.group > g \/ e.pc = "generate") => <<GroupName(g)>> \in e.zip
        /\ Entries(e.zip) =
            {<<GroupName(e.log[k][1]), CardName(e.log[k][1], e.log[k][2]), Artifact>> :
                k \in 1..e.resolved}
    /\ (last.op = "exit" /\ last.e.alone /\ last.props.type = "None") =>
        /\ last.saved.blob = last.e.zip
        /\ last.saved.name = "workspace"

C12_Witness ==
    /\ last.op = "exit"
    /\ last.props.type = "None"
    /\ last.saved.name = "workspace"
    /\ Len(groups) = 2
    /\ <<"New Group 1">> \in last.saved.blob
    /\ Entries(last.saved.blob) =
            {<<"Spells", "Fireball", Artifact>>, <<"Spells", "Magic Missile", Artifact>>}

(***************************************************************************)
(* Properties of the rendering flag and of the handlers during an export.  *)
(***************************************************************************)
\* The handlers of the menus that change the Workspace or the Selection.
EditingOps == {"add", "edit", "duplicate", "up", "down", "deselect"}

\* C17: while an export is in flight and the flag is true, no add,
\* duplicate, move, edit or deselect changes the Selection or the
\* Workspace, so the Selection stays on the card being rendered.
C17_NoChangeWhileExporting ==
    [][(InFlight # {} /\ isRendering /\ last'.op \in EditingOps)
            => UNCHANGED <<groups, selection>>]_vars

\* C18: the rendering flag is true in every state where some export has
\* entered and not exited, and false when none is in flight.
C18_FlagIffInFlight == isRendering <=> (InFlight # {})

\* C19: a render request made while renderedCards.current is null changes
\* neither the flag, the Selection nor the Workspace, starts no export and
\* saves nothing.
C19_NullRenderIsNoOp ==
    [][(~renderedCards /\ last'.op \in {"renderNull", "renderClick"})
            => /\ UNCHANGED <<groups, selection, isRendering, exports>>
               /\ ~last'.saved.called]_vars

C19_Witness ==
    /\ last.op = "renderNull"
    /\ last.props.type = "Group"
    /\ ~renderedCards
    /\ ~isRendering
    /\ InFlight = {}
    /\ selection = SelCard(0, 1)

(***************************************************************************)
(* Properties of the face of the card.                                     *)
(***************************************************************************)
\* The texts the face shows for the optional fields of a card.
Shown(card) ==
    [duration |-> durationCap(card),
     cardType |-> cardType(card),
     physicalComponents |-> front.physComp,
     description |-> front.desc.lines,
     extDescription |-> front.extDesc.lines]

\* C13 as claimed: every optional field the active card does not have is
\* shown as empty text, and the text of level and type is empty when the
\* card has no level or no type.
C13_AbsentFieldsShownEmpty ==
    LET card == front.card
    IN  /\ \A field \in DOMAIN Shown(card) \ {"cardType"} :
            ~Has(card, field) => Shown(card)[field] = <<>>
        /\ (~Has(card, "level") \/ ~Has(card, "type"))
            => Shown(card).cardType = <<>>

\* The duration starts with the concentration prefix, whatever its case.
HasConcentrationPrefix(s) ==
    \E p \in {ConcentrationComma, ConcentrationSpace} :
        /\ Len(s) >= Len(p)
        /\ \A i \in 1..Len(p) : s[i] \in {p[i], toUpperCase(p)[i]}

\* The text after the concentration prefix.
AfterConcentrationPrefix(s) ==
    LET p == CHOOSE q \in {ConcentrationComma, ConcentrationSpace} :
                /\ Len(s) >= Len(q)
                /\ toLowerCase(SubSeq(s, 1, Len(q))) = q
    IN  [i \in 1..(Len(s) - Len(p)) |-> s[i + Len(p)]]

\* A text with its first character in upper case.
Capitalized(s) ==
    [i \in 1..Len(s) |-> IF i = 1 THEN toUpperCase(<<s[1]>>)[1] ELSE s[i]]

\* C14 as claimed: the badge is visible exactly when the duration starts
\* with the concentration prefix, whatever its case; then the duration is
\* shown without the prefix, and otherwise it is shown as it was given.
C14_ShownAsGiven ==
    LET card == front.card
    IN  /\ durationConc(card) <=>
            (/\ Has(card, "duration")
             /\ HasConcentrationPrefix(The(card, "duration")))
        /\ durationConc(card) =>
            durationCap(card) = AfterConcentrationPrefix(The(card, "duration"))
        /\ (~durationConc(card) /\ Has(card, "duration")) =>
            durationCap(card) = The(card, "duration")
        /\ ~Has(card, "duration") => durationCap(card) = <<>>

\* C14: the badge is visible exactly when the duration starts with the
\* concentration prefix, whatever its case; then the duration is shown
\* without the prefix, and otherwise as it was given, in both cases with
\* its first character in upper case; a card without duration shows an
\* empty text and no badge.
C14_ShownCapitalized ==
    LET card == front.card
    IN  /\ durationConc(card) <=>
            (/\ Has(card, "duration")
             /\ HasConcentrationPrefix(The(card, "duration")))
        /\ durationConc(card) =>
            durationCap(card) =
                Capitalized(AfterConcentrationPrefix(The(card, "duration")))
        /\ (~durationConc(card) /\ Has(card, "duration")) =>
            durationCap(card) = Capitalized(The(card, "duration"))
        /\ ~Has(card, "duration") => durationCap(card) = <<>>

C14_Witness ==
    /\ Has(front.card, "duration")
    /\ The(front.card, "duration") =
        <<"c", "o", "n", "c", "e", "n", "t", "r", "a", "t", "i", "o", "n",
          " ", "i", "n", "s", "t", "a", "n", "t", "a", "n", "e", "o", "u",
          "s">>
    /\ durationConc(front.card)
    /\ durationCap(front.card) =
        <<"I", "n", "s", "t", "a", "n", "t", "a", "n", "e", "o", "u", "s">>

\* C15: the strip of the physical components is visible exactly when the
\* active card has physical components, and the title of the extended
\* description exactly when it has an extended description.
C15_PanelsVisibleIffPresent ==
    /\ front.physCompBkg.display = {}
        <=> Has(front.card, "physicalComponents")
    /\ front.extDescTitle.display = {}
        <=> Has(front.card, "extDescription")

\* The strip is hidden after a card that showed it, and the title is shown
\* after a card that hid it.
C15_Witness ==
    /\ ~Has(front.card, "physicalComponents")
    /\ front.physCompBkg.display = {"none"}
    /\ front.physCompBkg.height # {35}
    /\ Has(front.card, "extDescription")
    /\ front.extDescTitle.display = {}

\* The fragments of a region for a field of the active card.
Fragments(card, field) ==
    IF Has(card, field)
    THEN wordWrapSVG(bulletLists(The(card, field)), WrapWidth).lines
    ELSE <<>>

\* C16: each of the three regions holds the fragments of the field of the
\* active card and nothing else, and is empty when the card does not have
\* the field.
C16_RegionsHoldActiveCard ==
    /\ front.physComp = Fragments(front.card, "physicalComponents")
    /\ front.desc.lines = Fragments(front.card, "description")
    /\ front.extDesc.lines = Fragments(front.card, "extDescription")

\* The description is empty after a card that had one, beside a region
\* that is not.
C16_Witness ==
    /\ ~Has(front.card, "description")
    /\ front.desc.dy # {}
    /\ front.desc.lines = <<>>
    /\ Has(front.card, "physicalComponents")
    /\ Len(front.physComp) = 2
====
